---- MODULE Spec2Model ----
(***************************************************************************)
(* Near-Earth-object explorer: record loading (extract.py), the record     *)
(* classes (models.py), the linking store and query pipeline (database.py, *)
(* filters.py, helpers.py, as the specification describes them) and the    *)
(* result writers (write.py).                                              *)
(*                                                                         *)
(* Python values are modelled as records so that values of different       *)
(* Python types can be compared:                                           *)
(*   None            [none |-> TRUE]                                       *)
(*   str             [str |-> <<c1, ..., cn>>], one-character strings ci   *)
(*   float           [val |-> n], n the value in units of 1/Scale          *)
(*   float("nan")    [nan |-> TRUE]                                        *)
(*   datetime        [date |-> d, minute |-> m]                            *)
(*   bool            TRUE / FALSE                                          *)
(* An exception leaving a call is the record [exc |-> "<class name>"].     *)
(***************************************************************************)
EXTENDS Integers, Sequences, FiniteSets, TLC

VARIABLES
    pc,             \* position of the main program
    neoFile,        \* content of the object CSV file, or NoFile
    cadFile,        \* content of the approach JSON file, or NoFile
    neosOut,        \* outcome of the load_neos call
    approachesOut,  \* outcome of the load_approaches call
    stdout,         \* messages printed so far
    objs,           \* heap of NearEarthObject instances
    cas,            \* heap of CloseApproach instances
    nNeos,          \* objs[1..nNeos] is the database's object collection
    byDes,          \* designation -> object id
    byName,         \* name -> object id
    linkIdx,        \* number of approaches the linker has processed
    lookup,         \* result of the last lookup
    filters,        \* criteria of the current query
    results,        \* output of the query stage
    limited,        \* output of the limit stage
    outFile         \* content of the written output file

vars == <<pc, neoFile, cadFile, neosOut, approachesOut, stdout, objs, cas,
          nNeos, byDes, byName, linkIdx, lookup, filters, results, limited,
          outFile>>

loadVars == <<neoFile, cadFile, neosOut, approachesOut, stdout>>
dbVars == <<objs, cas, nNeos, byDes, byName>>
queryVars == <<filters, results, limited, outFile>>

-----------------------------------------------------------------------------
(* Bounds *)

MaxNeoRows == 2        \* rows of the object file
MaxCadRows == 2        \* rows of the approach file
MaxCriteria == 2       \* criteria specified together in one query
MaxLimit == 1          \* largest limit asked for

FracDigits == 2        \* fractional decimal digits a modelled float keeps

RECURSIVE Pow10(_)
Pow10(k) == IF k = 0 THEN 1 ELSE 10 * Pow10(k - 1)

(* Fixed-point resolution of the modelled floats: 1/Scale. *)
Scale == Pow10(FracDigits)

-----------------------------------------------------------------------------
(* Python values *)

None == [none |-> TRUE]
Str(chars) == [str |-> chars]
Float(n) == [val |-> n]
NaN == [nan |-> TRUE]
Exc(name) == [exc |-> name]
NoFile == [nofile |-> TRUE]
Pending == [pending |-> TRUE]

IsNone(v) == "none" \in DOMAIN v
IsStr(v) == "str" \in DOMAIN v
IsExc(v) == "exc" \in DOMAIN v
IsNaN(v) == "nan" \in DOMAIN v
IsNum(v) == "val" \in DOMAIN v

EmptyStr == Str(<<>>)

(* Python truthiness of a str-or-None value: None and "" are falsy. *)
Truthy(v) == IsStr(v) /\ v.str # <<>>

(* s1 + s2 on str *)
Concat(a, b) == Str(a.str \o b.str)

Min(a, b) == IF a <= b THEN a ELSE b

-----------------------------------------------------------------------------
(* float(str): accepts digits with at most one decimal point and at least  *)
(* one digit; anything else raises ValueError.                             *)

Digits == <<"0", "1", "2", "3", "4", "5", "6", "7", "8", "9">>

IsDigit(c) == \E d \in 1..10 : Digits[d] = c

DigitVal(c) == (CHOOSE d \in 1..10 : Digits[d] = c) - 1

PointPos(s) ==
    IF \E i \in 1..Len(s) : s[i] = "."
    THEN CHOOSE i \in 1..Len(s) : s[i] = "." /\ \A j \in 1..(i - 1) : s[j] # "."
    ELSE 0

IsFloatLiteral(s) ==
    /\ \A i \in 1..Len(s) : IsDigit(s[i]) \/ s[i] = "."
    /\ Cardinality({i \in 1..Len(s) : s[i] = "."}) <= 1
    /\ \E i \in 1..Len(s) : IsDigit(s[i])

RECURSIVE DigitsValue(_)
DigitsValue(s) ==
    IF s = <<>> THEN 0
    ELSE 10 * DigitsValue(SubSeq(s, 1, Len(s) - 1)) + DigitVal(s[Len(s)])

FloatValue(s) ==
    LET p == PointPos(s)
        ip == IF p = 0 THEN s ELSE SubSeq(s, 1, p - 1)
        fp == IF p = 0 THEN <<>> ELSE SubSeq(s, p + 1, Len(s))
    IN  DigitsValue(ip) * Scale + (DigitsValue(fp) * Scale) \div Pow10(Len(fp))

PyFloat(v) ==
    IF IsStr(v) /\ IsFloatLiteral(v.str) THEN Float(FloatValue(v.str))
    ELSE Exc("ValueError")

-----------------------------------------------------------------------------
(* helpers.cd_to_datetime / helpers.datetime_to_str                        *)

(* Calendar-date strings of the approach file and what they denote. *)
CdJan01 == Str(<<"1", "9", "0", "0", "-", "J", "a", "n", "-", "0", "1", " ",
                 "0", "0", ":", "0", "0">>)
CdJan02 == Str(<<"1", "9", "0", "0", "-", "J", "a", "n", "-", "0", "2", " ",
                 "1", "2", ":", "3", "0">>)

MonthAbbr ==
    << <<"J", "a", "n">>, <<"F", "e", "b">>, <<"M", "a", "r">>, <<"A", "p", "r">>,
       <<"M", "a", "y">>, <<"J", "u", "n">>, <<"J", "u", "l">>, <<"A", "u", "g">>,
       <<"S", "e", "p">>, <<"O", "c", "t">>, <<"N", "o", "v">>, <<"D", "e", "c">> >>

IsCalendarDate(s) ==
    /\ Len(s) = 17
    /\ \A i \in {1, 2, 3, 4, 10, 11, 13, 14, 16, 17} : IsDigit(s[i])
    /\ s[5] = "-" /\ s[9] = "-" /\ s[12] = " " /\ s[15] = ":"
    /\ \E m \in 1..12 : MonthAbbr[m] = SubSeq(s, 6, 8)
    /\ DigitsValue(SubSeq(s, 10, 11)) \in 1..31
    /\ DigitsValue(SubSeq(s, 13, 14)) \in 0..23
    /\ DigitsValue(SubSeq(s, 16, 17)) \in 0..59

(* "YYYY-Mon-DD HH:MM" -> datetime; any other string raises ValueError. *)
cd_to_datetime(v) ==
    LET s == v.str
    IN  IF ~IsCalendarDate(s) THEN Exc("ValueError")
        ELSE [year |-> DigitsValue(SubSeq(s, 1, 4)),
              month |-> CHOOSE m \in 1..12 : MonthAbbr[m] = SubSeq(s, 6, 8),
              day |-> DigitsValue(SubSeq(s, 10, 11)),
              minute |-> 60 * DigitsValue(SubSeq(s, 13, 14))
                           + DigitsValue(SubSeq(s, 16, 17))]

TwoDigits(n) == <<Digits[((n \div 10) % 10) + 1], Digits[(n % 10) + 1]>>

(* datetime -> "YYYY-MM-DD HH:MM" *)
datetime_to_str(t) ==
    Str(TwoDigits(t.year \div 100) \o TwoDigits(t.year % 100) \o <<"-">>
        \o TwoDigits(t.month) \o <<"-">> \o TwoDigits(t.day)
        \o <<" ">> \o TwoDigits(t.minute \div 60) \o <<":">>
        \o TwoDigits(t.minute % 60))

(* datetime.date(), as a day count that orders dates. *)
DateOf(t) == (t.year * 12 + (t.month - 1)) * 31 + t.day

-----------------------------------------------------------------------------
(* models.py *)

(* NearEarthObject.__init__ reading the designation from the name column. *)
NearEarthObject_desFromName(info) ==
    LET diameter == IF Truthy(info.diameter) THEN PyFloat(info.diameter)
                    ELSE NaN
    IN  IF IsExc(diameter) THEN diameter
        ELSE [designation |-> IF Truthy(info.name) THEN info.name ELSE EmptyStr,
              name |-> IF Truthy(info.name) THEN info.name ELSE None,
              diameter |-> diameter,
              hazardous |-> (info.pha = Str(<<"Y">>)),
              approaches |-> <<>>]

(* NearEarthObject.__init__ testing the diameter with "is not None". *)
NearEarthObject_isNotNone(info) ==
    LET diameter == IF ~IsNone(info.diameter) THEN PyFloat(info.diameter)
                    ELSE NaN
    IN  IF IsExc(diameter) THEN diameter
        ELSE [designation |-> IF Truthy(info.pdes) THEN info.pdes ELSE EmptyStr,
              name |-> IF Truthy(info.name) THEN info.name ELSE None,
              diameter |-> diameter,
              hazardous |-> (info.pha = Str(<<"Y">>)),
              approaches |-> <<>>]

(* NearEarthObject.__init__ *)
NearEarthObject(info) ==
    LET diameter == IF Truthy(info.diameter) THEN PyFloat(info.diameter)
                    ELSE NaN
    IN  IF IsExc(diameter) THEN diameter
        ELSE [designation |-> IF Truthy(info.pdes) THEN info.pdes ELSE EmptyStr,
              name |-> IF Truthy(info.name) THEN info.name ELSE None,
              diameter |-> diameter,
              hazardous |-> (info.pha = Str(<<"Y">>)),
              approaches |-> <<>>]

NoNameSpecified ==
    Str(<<"(", "N", "o", " ", "n", "a", "m", "e", " ", "s", "p", "e", "c",
          "i", "f", "i", "e", "d", ")">>)

(* fullname with name and designation in each other's place. *)
fullname_swapped(self) ==
    IF Truthy(self.name)
    THEN Concat(self.name,
                Concat(Str(<<" ", "(">>), Concat(self.designation, Str(<<")">>))))
    ELSE IF Truthy(self.designation) THEN self.designation
    ELSE NoNameSpecified

(* NearEarthObject.fullname *)
fullname(self) ==
    IF Truthy(self.name)
    THEN Concat(self.designation,
                Concat(Str(<<" ", "(">>), Concat(self.name, Str(<<")">>))))
    ELSE IF Truthy(self.designation) THEN self.designation
    ELSE NoNameSpecified

(* NearEarthObject.serialize *)
SerializeNeo(self) ==
    [designation |-> self.designation,
     name |-> self.name,
     diameter_km |-> self.diameter,
     potentially_hazardous |-> self.hazardous]

(* CloseApproach.__init__ keeping the designation as given, without the   *)
(* "or ''" default.                                                        *)
CloseApproach_rawDesignation(info) ==
    LET time == IF Truthy(info.time) THEN cd_to_datetime(info.time) ELSE None
        distance == IF Truthy(info.distance) THEN PyFloat(info.distance)
                    ELSE Float(0)
        velocity == IF Truthy(info.velocity) THEN PyFloat(info.velocity)
                    ELSE Float(0)
    IN  IF IsExc(time) THEN time
        ELSE IF IsExc(distance) THEN distance
        ELSE IF IsExc(velocity) THEN velocity
        ELSE [_designation |-> info.designation,
              time |-> time,
              distance |-> distance,
              velocity |-> velocity,
              neo |-> 0]

(* CloseApproach.__init__ with the reference already set at construction. *)
CloseApproach_neoSet(info) ==
    LET time == IF Truthy(info.time) THEN cd_to_datetime(info.time) ELSE None
        distance == IF Truthy(info.distance) THEN PyFloat(info.distance)
                    ELSE Float(0)
        velocity == IF Truthy(info.velocity) THEN PyFloat(info.velocity)
                    ELSE Float(0)
    IN  IF IsExc(time) THEN time
        ELSE IF IsExc(distance) THEN distance
        ELSE IF IsExc(velocity) THEN velocity
        ELSE [_designation |-> IF Truthy(info.designation) THEN info.designation
                               ELSE EmptyStr,
              time |-> time,
              distance |-> distance,
              velocity |-> velocity,
              neo |-> 1]

(* CloseApproach.__init__; neo = 0 is the unset reference. *)
CloseApproach(info) ==
    LET time == IF Truthy(info.time) THEN cd_to_datetime(info.time) ELSE None
        distance == IF Truthy(info.distance) THEN PyFloat(info.distance)
                    ELSE Float(0)
        velocity == IF Truthy(info.velocity) THEN PyFloat(info.velocity)
                    ELSE Float(0)
    IN  IF IsExc(time) THEN time
        ELSE IF IsExc(distance) THEN distance
        ELSE IF IsExc(velocity) THEN velocity
        ELSE [_designation |-> IF Truthy(info.designation) THEN info.designation
                               ELSE EmptyStr,
              time |-> time,
              distance |-> distance,
              velocity |-> velocity,
              neo |-> 0]

(* CloseApproach.time_str *)
time_str(self) == datetime_to_str(self.time)

(* CloseApproach.serialize *)
SerializeApproach(self) ==
    [datetime_utc |-> time_str(self),
     distance_au |-> self.distance,
     velocity_km_s |-> self.velocity]

-----------------------------------------------------------------------------
(* extract.py *)

(* What csv.DictReader yields for a row: the four recognised columns. *)
Row(pdes, name, diameter, pha) ==
    [pdes |-> pdes, name |-> name, diameter |-> diameter, pha |-> pha]

(* The outcome of a call: [ret |-> list], [retnone |-> TRUE] or an        *)
(* exception [exc |-> class].                                              *)
Returned(list) == [ret |-> list]
ReturnedNone == [retnone |-> TRUE]
IsReturned(o) == "ret" \in DOMAIN o

FileNotFoundMsg == "File not found"

(* The exception of the first element of seq that is one, if any. *)
FirstExc(seq) ==
    LET bad == {i \in 1..Len(seq) : IsExc(seq[i])}
    IN  IF bad = {} THEN None
        ELSE seq[CHOOSE i \in bad : \A j \in bad : i <= j]

(* load_neos(neo_csv_path): [out |-> outcome, printed |-> messages].       *)
(* open() raising FileNotFoundError leaves f unbound; the handler prints,  *)
(* then the finally clause evaluates f.close().                            *)
load_neos(file) ==
    IF file = NoFile
    THEN [out |-> Exc("UnboundLocalError"), printed |-> <<FileNotFoundMsg>>]
    ELSE LET output == [i \in 1..Len(file.rows) |-> NearEarthObject(file.rows[i])]
         IN  [out |-> IF FirstExc(output) # None THEN FirstExc(output)
                      ELSE Returned(output),
              printed |-> <<>>]

(* list.index(x): position of the first occurrence, 0 when absent *)
Index(list, x) ==
    IF \E i \in 1..Len(list) : list[i] = x
    THEN CHOOSE i \in 1..Len(list) : list[i] = x /\ \A j \in 1..(i - 1) : list[j] # x
    ELSE 0

ColDes == Str(<<"d", "e", "s">>)
ColCd == Str(<<"c", "d">>)
ColDist == Str(<<"d", "i", "s", "t">>)
ColVRel == Str(<<"v", "_", "r", "e", "l">>)
ColOrbit == Str(<<"o", "r", "b", "i", "t", "_", "i", "d">>)

(* load_approaches reading the columns at fixed positions. *)
load_approaches_positional(file) ==
    IF file = NoFile
    THEN [out |-> Exc("UnboundLocalError"), printed |-> <<FileNotFoundMsg>>]
    ELSE LET output ==
                 [i \in 1..Len(file.data) |->
                     CloseApproach([designation |-> file.data[i][1],
                                    time |-> file.data[i][3],
                                    distance |-> file.data[i][4],
                                    velocity |-> file.data[i][5]])]
         IN  [out |-> IF FirstExc(output) # None THEN FirstExc(output)
                      ELSE Returned(output),
              printed |-> <<>>]

(* load_approaches(cad_json_path) *)
load_approaches(file) ==
    IF file = NoFile
    THEN [out |-> Exc("UnboundLocalError"), printed |-> <<FileNotFoundMsg>>]
    ELSE LET destinationIndex == Index(file.fields, ColDes)
             timeIndex == Index(file.fields, ColCd)
             distanceIndex == Index(file.fields, ColDist)
             velocityIndex == Index(file.fields, ColVRel)
         IN  IF 0 \in {destinationIndex, timeIndex, distanceIndex, velocityIndex}
             THEN [out |-> Exc("ValueError"), printed |-> <<>>]
             ELSE LET output ==
                          [i \in 1..Len(file.data) |->
                              CloseApproach([designation |-> file.data[i][destinationIndex],
                                             time |-> file.data[i][timeIndex],
                                             distance |-> file.data[i][distanceIndex],
                                             velocity |-> file.data[i][velocityIndex]])]
                  IN  [out |-> IF FirstExc(output) # None THEN FirstExc(output)
                               ELSE Returned(output),
                       printed |-> <<>>]

-----------------------------------------------------------------------------
(* Input domains *)

S1(c) == Str(<<c>>)
Num15 == Str(<<"1", ".", "5">>)
Num05 == Str(<<".", "5">>)
Num20 == Str(<<"2", "0">>)
Malformed == Str(<<"1", "x">>)

SeqsUpTo(S, n) == UNION {[1..k -> S] : k \in 0..n}

(* Object rows, well-formed and not. *)
NeoRowsAny ==
    { Row(S1("a"), S1("E"), Num15, S1("Y")),
      Row(S1("a"), EmptyStr, EmptyStr, S1("N")),
      Row(EmptyStr, None, None, EmptyStr),
      Row(None, S1("E"), Num05, S1("y")),
      Row(S1("A"), S1("E"), Malformed, S1("N")),
      Row(S1("b"), None, Str(<<".">>), S1("Y")) }

NeoFilesAny == {NoFile} \cup {[rows |-> r] : r \in SeqsUpTo(NeoRowsAny, MaxNeoRows)}

(* Approach rows in the canonical column order des, orbit_id, cd, dist, v_rel. *)
CadRowsAny ==
    { <<S1("a"), S1("7"), CdJan01, Num05, Num20>>,
      <<S1("A"), S1("8"), CdJan02, Num15, Str(<<"5">>)>>,
      <<None, EmptyStr, EmptyStr, EmptyStr, None>>,
      <<S1("a"), S1("7"), CdJan01, Malformed, Num20>>,
      <<S1("b"), S1("9"), None, Num05, Str(<<"-">>)>> }

CanonicalFields == <<ColDes, ColOrbit, ColCd, ColDist, ColVRel>>

Permutations5 == {p \in [1..5 -> 1..5] : \A i, j \in 1..5 : p[i] = p[j] => i = j}

(* Column orders the input files come in. *)
FieldOrders == { <<1, 2, 3, 4, 5>>, <<5, 4, 3, 2, 1>>, <<3, 1, 5, 2, 4>> }

(* The file with column k of the result being column p[k] of the given one. *)
PermuteFile(file, p) ==
    [fields |-> [k \in 1..Len(file.fields) |-> file.fields[p[k]]],
     data |-> [i \in 1..Len(file.data) |->
                  [k \in 1..Len(file.fields) |-> file.data[i][p[k]]]]]

CadFilesAny ==
    {NoFile} \cup
    { PermuteFile([fields |-> CanonicalFields, data |-> d], p) :
          d \in SeqsUpTo(CadRowsAny, MaxCadRows), p \in FieldOrders }

-----------------------------------------------------------------------------
(* The loading program: main calls load_neos, then load_approaches. The  *)
(* two loaders share no state, so the inputs vary one file at a time.      *)

InitRest ==
    /\ stdout = <<>>
    /\ objs = <<>>
    /\ cas = <<>>
    /\ nNeos = 0
    /\ byDes = <<>>
    /\ byName = <<>>
    /\ linkIdx = 0
    /\ lookup = Pending
    /\ filters = Pending
    /\ results = Pending
    /\ limited = Pending
    /\ outFile = Pending

OneNeoFile ==
    [rows |-> << Row(S1("a"), S1("E"), Num15, S1("Y")),
                 Row(S1("b"), EmptyStr, EmptyStr, S1("N")) >>]

InitLoad ==
    /\ pc = "start"
    /\ \/ neoFile \in NeoFilesAny /\ cadFile = NoFile
       \/ neoFile = OneNeoFile /\ cadFile \in CadFilesAny
    /\ neosOut = Pending
    /\ approachesOut = Pending
    /\ InitRest

LoadNeos ==
    /\ pc = "start"
    /\ LET r == load_neos(neoFile)
       IN  /\ neosOut' = r.out
           /\ stdout' = stdout \o r.printed
           /\ pc' = IF IsExc(r.out) THEN "crashed" ELSE "neos_loaded"
    /\ UNCHANGED <<neoFile, cadFile, approachesOut, dbVars, linkIdx, lookup, queryVars>>

LoadApproaches ==
    /\ pc = "neos_loaded"
    /\ LET r == load_approaches(cadFile)
       IN  /\ approachesOut' = r.out
           /\ stdout' = stdout \o r.printed
           /\ pc' = IF IsExc(r.out) THEN "crashed" ELSE "loaded"
    /\ UNCHANGED <<neoFile, cadFile, neosOut, dbVars, linkIdx, lookup, queryVars>>

NextLoad == LoadNeos \/ LoadApproaches

SpecLoad == InitLoad /\ [][NextLoad]_vars

-----------------------------------------------------------------------------
(* database.py: NEODatabase, the linking store *)

(* dict built by inserting keys[i] -> i for i = 1..n in order, skipping    *)
(* None: a later insertion replaces an earlier one.                        *)
RECURSIVE BuildDict(_, _)
BuildDict(keys, i) ==
    IF i = 0 THEN [k \in {} |-> 0]
    ELSE LET d == BuildDict(keys, i - 1)
         IN  IF ~IsNone(keys[i])
             THEN [k \in DOMAIN d \cup {keys[i]} |-> IF k = keys[i] THEN i ELSE d[k]]
             ELSE d

(* {neo.designation: neo for neo in neos} *)
DesignationDict(neos) ==
    BuildDict([i \in 1..Len(neos) |-> neos[i].designation], Len(neos))

(* {neo.name: neo for neo in neos if neo.name is not None} *)
NameDict(neos) ==
    BuildDict([i \in 1..Len(neos) |-> neos[i].name], Len(neos))

(* The Object the linker creates for a designation no loaded Object has. *)
PlaceholderNeo(designation) == NearEarthObject(Row(designation, None, None, None))

(* One iteration of the linking loop, for approach i: the new heaps. *)
LinkOne(os, as, map, i) ==
    LET key == as[i]._designation
    IN  IF key \in DOMAIN map
        THEN [objs |-> [os EXCEPT ![map[key]].approaches = Append(@, i)],
              cas |-> [as EXCEPT ![i].neo = map[key]]]
        ELSE [objs |-> Append(os, [PlaceholderNeo(key) EXCEPT !.approaches = <<i>>]),
              cas |-> [as EXCEPT ![i].neo = Len(os) + 1]]

(* NEODatabase.__init__(neos, approaches), up to the linking loop *)
Construct ==
    /\ pc = "loaded"
    /\ objs' = neosOut.ret
    /\ cas' = approachesOut.ret
    /\ nNeos' = Len(neosOut.ret)
    /\ byDes' = DesignationDict(neosOut.ret)
    /\ byName' = NameDict(neosOut.ret)
    /\ linkIdx' = 0
    /\ pc' = IF Len(approachesOut.ret) = 0 THEN "linked" ELSE "linking"
    /\ UNCHANGED <<loadVars, lookup, queryVars>>

(* NEODatabase.__init__, one iteration of the linking loop *)
LinkStep ==
    /\ pc = "linking"
    /\ linkIdx < Len(cas)
    /\ LET r == LinkOne(objs, cas, byDes, linkIdx + 1)
       IN  /\ objs' = r.objs
           /\ cas' = r.cas
    /\ linkIdx' = linkIdx + 1
    /\ pc' = IF linkIdx + 1 = Len(cas) THEN "linked" ELSE "linking"
    /\ UNCHANGED <<loadVars, nNeos, byDes, byName, lookup, queryVars>>

(* Keys the lookups are tried with. *)
LookupKeys == {S1("a"), S1("A"), S1("E"), S1("b"), EmptyStr}

(* NEODatabase.get_neo_by_designation *)
get_neo_by_designation(designation) ==
    IF designation \in DOMAIN byDes THEN [neo |-> byDes[designation]] ELSE None

(* NEODatabase.get_neo_by_name *)
get_neo_by_name(name) ==
    IF name \in DOMAIN byName THEN [neo |-> byName[name]] ELSE None

GetNeoByDesignation ==
    /\ pc = "linked"
    /\ \E d \in LookupKeys : lookup' = get_neo_by_designation(d)
    /\ pc' = "done"
    /\ UNCHANGED <<loadVars, dbVars, linkIdx, queryVars>>

GetNeoByName ==
    /\ pc = "linked"
    /\ \E n \in LookupKeys : lookup' = get_neo_by_name(n)
    /\ pc' = "done"
    /\ UNCHANGED <<loadVars, dbVars, linkIdx, queryVars>>


-----------------------------------------------------------------------------
(* filters.py: create_filters and the predicates *)

Day(n) == [day |-> n]
Bool(b) == [bool |-> b]
PyInt(k) == [int |-> k]

Jan01 == [year |-> 1900, month |-> 1, day |-> 1]
Jan02 == [year |-> 1900, month |-> 1, day |-> 2]

(* The keyword arguments of create_filters: which attribute each compares, *)
(* with which operator, and the values the queries of the model give it.   *)
CriterionTable ==
    << [name |-> "date",         attr |-> "date",      op |-> "eq", values |-> <<Day(DateOf(Jan01))>>],
       [name |-> "start_date",   attr |-> "date",      op |-> "ge", values |-> <<Day(DateOf(Jan02))>>],
       [name |-> "end_date",     attr |-> "date",      op |-> "le", values |-> <<Day(DateOf(Jan01))>>],
       [name |-> "distance_min", attr |-> "distance",  op |-> "ge", values |-> <<Float(1 * Scale)>>],
       [name |-> "distance_max", attr |-> "distance",  op |-> "le", values |-> <<Float(1 * Scale)>>],
       [name |-> "velocity_min", attr |-> "velocity",  op |-> "ge", values |-> <<Float(10 * Scale)>>],
       [name |-> "velocity_max", attr |-> "velocity",  op |-> "le", values |-> <<Float(10 * Scale)>>],
       [name |-> "diameter_min", attr |-> "diameter",  op |-> "ge", values |-> <<Float(1 * Scale)>>],
       [name |-> "diameter_max", attr |-> "diameter",  op |-> "le", values |-> <<Float(1 * Scale)>>],
       [name |-> "hazardous",    attr |-> "hazardous", op |-> "eq",
        values |-> <<Bool(TRUE), Bool(FALSE)>>] >>

NCriteria == Len(CriterionTable)

(* The argument sets of a query: criterion k is None or one of its values, *)
(* at most MaxCriteria of them specified.                                  *)
CriteriaSets ==
    UNION { { [k \in 1..NCriteria |->
                  IF k \in S THEN CriterionTable[k].values[pick[k]] ELSE None] :
              pick \in {q \in [S -> 1..2] :
                           \A k \in S : q[k] <= Len(CriterionTable[k].values)} } :
            S \in {T \in SUBSET (1..NCriteria) : Cardinality(T) <= MaxCriteria} }

(* The attribute of an approach (and its linked object) a filter reads. *)
FilterGet(attr, approach, os) ==
    CASE attr = "date"      -> Day(DateOf(approach.time))
      [] attr = "distance"  -> approach.distance
      [] attr = "velocity"  -> approach.velocity
      [] attr = "diameter"  -> os[approach.neo].diameter
      [] attr = "hazardous" -> Bool(os[approach.neo].hazardous)

(* Comparisons with the bounds excluded. *)
Compare_strict(op, a, b) ==
    IF IsNaN(a) \/ IsNaN(b) THEN FALSE
    ELSE CASE op = "eq" -> a = b
           [] op = "ge" -> IF IsNum(a) THEN a.val > b.val ELSE a.day > b.day
           [] op = "le" -> IF IsNum(a) THEN a.val < b.val ELSE a.day < b.day

(* operator.eq / operator.ge / operator.le; comparisons with NaN are False *)
Compare(op, a, b) ==
    IF IsNaN(a) \/ IsNaN(b) THEN FALSE
    ELSE CASE op = "eq" -> a = b
           [] op = "ge" -> IF IsNum(a) THEN a.val >= b.val ELSE a.day >= b.day
           [] op = "le" -> IF IsNum(a) THEN a.val <= b.val ELSE a.day <= b.day

(* create_filters(...): one filter per specified criterion *)
create_filters(criteria) ==
    LET spec == {k \in 1..NCriteria : ~IsNone(criteria[k])}
    IN  {[attr |-> CriterionTable[k].attr, op |-> CriterionTable[k].op,
          value |-> criteria[k]] : k \in spec}

(* A filter called on an approach. *)
FilterCall(f, approach, os) == Compare(f.op, FilterGet(f.attr, approach, os), f.value)

(* NEODatabase.query(filters): the approaches, in order, that pass every   *)
(* filter; the generator's output from approach i on.                      *)
RECURSIVE QueryFrom(_, _, _, _)
QueryFrom(i, fs, as, os) ==
    IF i > Len(as) THEN <<>>
    ELSE IF \A f \in fs : FilterCall(f, as[i], os)
         THEN <<i>> \o QueryFrom(i + 1, fs, as, os)
         ELSE QueryFrom(i + 1, fs, as, os)

query(fs, as, os) == QueryFrom(1, fs, as, os)

(* filters.limit(iterator, n): islice(iterator, n) unless n is 0 or None *)
RECURSIVE Islice(_, _)
Islice(iterator, n) ==
    IF n = 0 \/ iterator = <<>> THEN <<>>
    ELSE <<Head(iterator)>> \o Islice(Tail(iterator), n - 1)

(* limit slicing also for n = 0. *)
limit_zeroSlices(iterator, n) ==
    IF IsNone(n) THEN iterator ELSE Islice(iterator, n.int)

limit(iterator, n) ==
    IF IsNone(n) \/ n = PyInt(0) THEN iterator ELSE Islice(iterator, n.int)

Limits == {None} \cup {PyInt(k) : k \in 0..MaxLimit}

Query ==
    /\ pc = "linked"
    /\ \E c \in CriteriaSets :
          /\ filters' = c
          /\ results' = [items |-> query(create_filters(c), cas, objs)]
    /\ pc' = "queried"
    /\ UNCHANGED <<loadVars, dbVars, linkIdx, lookup, limited, outFile>>

Limit ==
    /\ pc = "queried"
    /\ \E n \in Limits : limited' = [n |-> n, items |-> limit(results.items, n)]
    /\ pc' = "limited"
    /\ UNCHANGED <<loadVars, dbVars, linkIdx, lookup, filters, results, outFile>>

-----------------------------------------------------------------------------
(* write.py *)

fieldnames ==
    << "datetime_utc", "distance_au", "velocity_km_s", "designation", "name",
       "diameter_km", "potentially_hazardous" >>

(* csv.DictWriter.writerow(rowdict): the values in fieldnames order *)
DictWriterRow(rowdict) == [k \in 1..Len(fieldnames) |-> rowdict[fieldnames[k]]]

(* The row dict with the object's name under "designation" and back. *)
CsvRowDict_swapped(row, os) ==
    [datetime_utc |-> time_str(row),
     distance_au |-> row.distance,
     velocity_km_s |-> row.velocity,
     designation |-> os[row.neo].name,
     name |-> os[row.neo].designation,
     diameter_km |-> os[row.neo].diameter,
     potentially_hazardous |-> Bool(os[row.neo].hazardous)]

(* The dict write_to_csv builds for one approach of the stream. *)
CsvRowDict(row, os) ==
    [datetime_utc |-> time_str(row),
     distance_au |-> row.distance,
     velocity_km_s |-> row.velocity,
     designation |-> os[row.neo].designation,
     name |-> os[row.neo].name,
     diameter_km |-> os[row.neo].diameter,
     potentially_hazardous |-> Bool(os[row.neo].hazardous)]

(* write_to_csv(results, filename): the file written *)
write_to_csv(stream, as, os) ==
    [header |-> fieldnames,
     rows |-> [k \in 1..Len(stream) |-> DictWriterRow(CsvRowDict(as[stream[k]], os))]]

(* write_to_json(results, filename): the document written *)
write_to_json(stream, as, os) ==
    [json |-> [k \in 1..Len(stream) |->
                  [datetime_utc |-> SerializeApproach(as[stream[k]]).datetime_utc,
                   distance_au |-> SerializeApproach(as[stream[k]]).distance_au,
                   velocity_km_s |-> SerializeApproach(as[stream[k]]).velocity_km_s,
                   neo |-> SerializeNeo(os[as[stream[k]].neo])]]]

WriteCsv ==
    /\ pc = "limited"
    /\ outFile' = write_to_csv(limited.items, cas, objs)
    /\ pc' = "done"
    /\ UNCHANGED <<loadVars, dbVars, linkIdx, lookup, filters, results, limited>>

WriteJson ==
    /\ pc = "limited"
    /\ outFile' = write_to_json(limited.items, cas, objs)
    /\ pc' = "done"
    /\ UNCHANGED <<loadVars, dbVars, linkIdx, lookup, filters, results, limited>>

-----------------------------------------------------------------------------
(* Well-formed input files *)

NeoRows ==
    { Row(S1("a"), S1("E"), Num15, S1("Y")),
      Row(S1("a"), EmptyStr, EmptyStr, S1("N")),
      Row(S1("A"), S1("E"), Num05, S1("y")),
      Row(EmptyStr, None, None, EmptyStr) }

CadRows ==
    { <<S1("a"), S1("7"), CdJan01, Num05, Num20>>,
      <<S1("A"), S1("8"), CdJan02, Num15, Str(<<"5">>)>>,
      <<S1("b"), S1("9"), CdJan02, EmptyStr, None>>,
      <<None, EmptyStr, CdJan01, Num05, Num20>> }

NeoFiles == {[rows |-> r] : r \in SeqsUpTo(NeoRows, MaxNeoRows)}

CadFiles == {[fields |-> CanonicalFields, data |-> d] : d \in SeqsUpTo(CadRows, MaxCadRows)}

(* Loading and linking, over every pair of input files. *)
InitLink ==
    /\ pc = "start"
    /\ neoFile \in NeoFiles
    /\ cadFile \in CadFiles
    /\ neosOut = Pending
    /\ approachesOut = Pending
    /\ InitRest

NextLink ==
    \/ LoadNeos
    \/ LoadApproaches
    \/ Construct
    \/ LinkStep
    \/ GetNeoByDesignation
    \/ GetNeoByName

SpecLink == InitLink /\ [][NextLink]_vars

(* The object catalogs the queries run against: distinct designations,    *)
(* a repeated designation, an empty designation, no object at all.         *)
Catalogs ==
    { [rows |-> << Row(S1("a"), S1("E"), Num15, S1("Y")),
                   Row(S1("A"), S1("E"), Num05, S1("y")) >>],
      [rows |-> << Row(S1("a"), S1("E"), Num15, S1("Y")),
                   Row(S1("a"), EmptyStr, EmptyStr, S1("N")) >>],
      [rows |-> << Row(EmptyStr, None, None, EmptyStr) >>],
      [rows |-> << >>] }

(* The whole program: load, link, then one lookup or one query. *)
Init ==
    /\ pc = "start"
    /\ neoFile \in Catalogs
    /\ cadFile \in CadFiles
    /\ neosOut = Pending
    /\ approachesOut = Pending
    /\ InitRest

Next ==
    \/ LoadNeos
    \/ LoadApproaches
    \/ Construct
    \/ LinkStep
    \/ GetNeoByDesignation
    \/ GetNeoByName
    \/ Query
    \/ Limit
    \/ WriteCsv
    \/ WriteJson

Spec == Init /\ [][Next]_vars


-----------------------------------------------------------------------------
(* Vocabulary of the properties *)

(* The linking phase is over. *)
Linked == pc \in {"linked", "queried", "limited", "done"}

(* The column of the approach file that carries the given name. *)
Col(file, name) == CHOOSE p \in 1..Len(file.fields) : file.fields[p] = name

(* The designation key of data row i of the approach file: its "des"       *)
(* value, null or empty read as the empty designation.                     *)
RowKey(i) ==
    LET des == cadFile.data[i][Col(cadFile, ColDes)]
    IN  IF IsStr(des) THEN des ELSE EmptyStr

(* seq lists the members of the index set S, each once, in ascending order *)
ListsInOrder(seq, S) ==
    /\ Len(seq) = Cardinality(S)
    /\ \A k \in 1..Len(seq) : seq[k] \in S
    /\ \A k, l \in 1..Len(seq) : k < l => seq[k] < seq[l]

(* An optional numeric field value that is empty/absent, or a number. *)
EmptyValue(v) == IsNone(v) \/ v = EmptyStr
NumberString(v) == IsStr(v) /\ IsFloatLiteral(v.str)

NeosCalled == neoFile # NoFile /\ neosOut # Pending
ApproachesCalled == cadFile # NoFile /\ approachesOut # Pending

-----------------------------------------------------------------------------
(* C1: after the Linker has run, every Approach has its object reference   *)
(* set, and that Object's designation equals the Approach's designation    *)
(* key; an Approach whose designation matches no loaded Object is linked   *)
(* to a placeholder Object carrying only that designation (no name,        *)
(* unknown diameter, not hazardous).                                       *)
LinkedToOwnDesignation ==
    Linked =>
        \A i \in 1..Len(cas) :
            /\ cas[i].neo \in 1..Len(objs)
            /\ objs[cas[i].neo].designation = RowKey(i)
            /\ (\A o \in 1..nNeos : objs[o].designation # RowKey(i)) =>
                  /\ cas[i].neo > nNeos
                  /\ IsNone(objs[cas[i].neo].name)
                  /\ IsNaN(objs[cas[i].neo].diameter)
                  /\ objs[cas[i].neo].hazardous = FALSE

LinkedWithPlaceholder ==
    /\ pc = "linked"
    /\ \E i, j \in 1..Len(cas) :
          /\ cas[i].neo > nNeos
          /\ objs[cas[i].neo].designation = S1("b")
          /\ cas[j].neo \in 1..nNeos

-----------------------------------------------------------------------------
(* C2 as stated: after linking, the approach collection of every Object of *)
(* the loaded object collection lists exactly the Approaches whose         *)
(* designation key equals the Object's designation, each once, in input    *)
(* order -- also when two object rows share a designation.                 *)
MatchingRows(o) == {i \in 1..Len(cadFile.data) : RowKey(i) = objs[o].designation}

EveryObjectCollectsItsApproaches ==
    Linked => \A o \in 1..nNeos : ListsInOrder(objs[o].approaches, MatchingRows(o))

(* C2: after linking, the approach collection of every Object that is the  *)
(* last object row with its designation lists exactly the Approaches whose *)
(* designation key equals that designation, each once, in input order; an  *)
(* Object whose designation a later object row repeats has an empty        *)
(* collection.                                                             *)
LastObjectCollectsItsApproaches ==
    Linked =>
        \A o \in 1..nNeos :
            IF \A o2 \in (o + 1)..nNeos : objs[o2].designation # objs[o].designation
            THEN ListsInOrder(objs[o].approaches, MatchingRows(o))
            ELSE objs[o].approaches = <<>>

LinkedTwoToOneObject ==
    /\ pc = "linked"
    /\ \E o \in 1..nNeos : Len(objs[o].approaches) = 2
    /\ \E o \in 1..nNeos : \E o2 \in (o + 1)..nNeos :
          objs[o2].designation = objs[o].designation

-----------------------------------------------------------------------------
(* C3: load_neos or load_approaches called with the path of a file that    *)
(* does not exist reports the failure and returns to the caller without    *)
(* raising an exception.                                                   *)
MissingFileReportedNotRaised ==
    /\ (neoFile = NoFile /\ neosOut # Pending) =>
          neosOut = ReturnedNone /\ stdout = <<FileNotFoundMsg>>
    /\ (cadFile = NoFile /\ approachesOut # Pending) =>
          approachesOut = ReturnedNone /\ stdout = <<FileNotFoundMsg>>

-----------------------------------------------------------------------------
(* C4 as stated: constructing an Object or an Approach from a row never    *)
(* raises because of an optional field's value; a malformed value degrades *)
(* to the field's default exactly as an empty one does.                    *)
MalformedOptionalDefaulted ==
    /\ NeosCalled =>
          /\ IsReturned(neosOut)
          /\ \A i \in 1..Len(neoFile.rows) :
                ~NumberString(neoFile.rows[i].diameter) => IsNaN(neosOut.ret[i].diameter)
    /\ ApproachesCalled =>
          /\ IsReturned(approachesOut)
          /\ \A i \in 1..Len(cadFile.data) :
                /\ ~NumberString(cadFile.data[i][Col(cadFile, ColDist)])
                      => approachesOut.ret[i].distance = Float(0)
                /\ ~NumberString(cadFile.data[i][Col(cadFile, ColVRel)])
                      => approachesOut.ret[i].velocity = Float(0)

(* C4: constructing an Object or an Approach from a row whose diameter,    *)
(* distance and velocity are each empty/absent or a number does not raise, *)
(* and an empty or absent optional value gives the field's default (NaN    *)
(* diameter, 0.0 distance, 0.0 velocity, absent name, absent time); a      *)
(* non-empty diameter, distance or velocity that is not a number raises    *)
(* ValueError.                                                             *)
EmptyOptionalDefaulted ==
    /\ NeosCalled =>
          IF \A i \in 1..Len(neoFile.rows) :
                 EmptyValue(neoFile.rows[i].diameter) \/ NumberString(neoFile.rows[i].diameter)
          THEN /\ IsReturned(neosOut)
               /\ Len(neosOut.ret) = Len(neoFile.rows)
               /\ \A i \in 1..Len(neoFile.rows) :
                     /\ EmptyValue(neoFile.rows[i].diameter) => IsNaN(neosOut.ret[i].diameter)
                     /\ EmptyValue(neoFile.rows[i].name) => IsNone(neosOut.ret[i].name)
          ELSE neosOut = Exc("ValueError")
    /\ ApproachesCalled =>
          LET dist(i) == cadFile.data[i][Col(cadFile, ColDist)]
              vel(i) == cadFile.data[i][Col(cadFile, ColVRel)]
              cd(i) == cadFile.data[i][Col(cadFile, ColCd)]
          IN  IF \A i \in 1..Len(cadFile.data) :
                     /\ EmptyValue(dist(i)) \/ NumberString(dist(i))
                     /\ EmptyValue(vel(i)) \/ NumberString(vel(i))
              THEN /\ IsReturned(approachesOut)
                   /\ Len(approachesOut.ret) = Len(cadFile.data)
                   /\ \A i \in 1..Len(cadFile.data) :
                         /\ EmptyValue(dist(i)) => approachesOut.ret[i].distance = Float(0)
                         /\ EmptyValue(vel(i)) => approachesOut.ret[i].velocity = Float(0)
                         /\ EmptyValue(cd(i)) => IsNone(approachesOut.ret[i].time)
              ELSE approachesOut = Exc("ValueError")

EmptyOptionalsLoaded ==
    /\ IsReturned(neosOut)
    /\ \E i \in 1..Len(neoFile.rows) :
          neoFile.rows[i].diameter = EmptyStr /\ IsNaN(neosOut.ret[i].diameter)
    /\ IsReturned(approachesOut)
    /\ \E i \in 1..Len(cadFile.data) :
          /\ cadFile.data[i][Col(cadFile, ColDist)] = EmptyStr
          /\ approachesOut.ret[i].distance = Float(0)

-----------------------------------------------------------------------------
(* C7: for every loaded Object, fullname is "<designation> (<name>)" when  *)
(* the name is present, else "<designation>" when the designation is       *)
(* non-empty, else the literal "(No name specified)".                      *)
FullnameOfLoaded ==
    IsReturned(neosOut) =>
        \A i \in 1..Len(neosOut.ret) :
            LET o == neosOut.ret[i]
            IN  fullname(o) =
                    IF ~IsNone(o.name)
                    THEN Str(o.designation.str \o <<" ", "(">> \o o.name.str \o <<")">>)
                    ELSE IF o.designation # EmptyStr THEN o.designation
                    ELSE Str(<<"(", "N", "o", " ", "n", "a", "m", "e", " ",
                               "s", "p", "e", "c", "i", "f", "i", "e", "d", ")">>)

FullnameCasesLoaded ==
    /\ IsReturned(neosOut)
    /\ \E i, j \in 1..Len(neosOut.ret) :
          /\ fullname(neosOut.ret[i]) = Str(<<"a", " ", "(", "E", ")">>)
          /\ IsNone(neosOut.ret[j].name)
          /\ neosOut.ret[j].designation = EmptyStr

-----------------------------------------------------------------------------
(* C10: load_approaches resolves "des", "cd", "dist", "v_rel" by name, so  *)
(* its result is the same for every permutation of the columns (extra      *)
(* columns included): one Approach per data row, in data-row order, each   *)
(* with the values of the columns so named.                                *)
ColumnOrderIndependent ==
    ApproachesCalled =>
        /\ \A p \in Permutations5 : load_approaches(PermuteFile(cadFile, p)).out = approachesOut
        /\ IsReturned(approachesOut) =>
              /\ Len(approachesOut.ret) = Len(cadFile.data)
              /\ \A i \in 1..Len(cadFile.data) :
                    approachesOut.ret[i] =
                        CloseApproach([designation |-> cadFile.data[i][Col(cadFile, ColDes)],
                                       time |-> cadFile.data[i][Col(cadFile, ColCd)],
                                       distance |-> cadFile.data[i][Col(cadFile, ColDist)],
                                       velocity |-> cadFile.data[i][Col(cadFile, ColVRel)]])

PermutedFileLoaded ==
    /\ IsReturned(approachesOut)
    /\ cadFile.fields[1] = ColVRel
    /\ Len(approachesOut.ret) = 2
    /\ approachesOut.ret[1]._designation = S1("a")
    /\ approachesOut.ret[2]._designation = S1("A")

-----------------------------------------------------------------------------
(* C5: the query's output is exactly the subsequence, in input order, of   *)
(* the linked Approaches that satisfy every specified criterion; an        *)
(* unspecified criterion excludes nothing, so without criteria the output  *)
(* is the whole approach sequence; the same criteria applied again give    *)
(* the same sequence.                                                      *)
Specified(name) ==
    LET k == CHOOSE j \in 1..NCriteria : CriterionTable[j].name = name
    IN  ~IsNone(filters[k])

Arg(name) ==
    LET k == CHOOSE j \in 1..NCriteria : CriterionTable[j].name = name
    IN  filters[k]

Satisfies(i) ==
    LET a == cas[i]
        o == objs[a.neo]
    IN  /\ Specified("date") => DateOf(a.time) = Arg("date").day
        /\ Specified("start_date") => DateOf(a.time) >= Arg("start_date").day
        /\ Specified("end_date") => DateOf(a.time) <= Arg("end_date").day
        /\ Specified("distance_min") => a.distance.val >= Arg("distance_min").val
        /\ Specified("distance_max") => a.distance.val <= Arg("distance_max").val
        /\ Specified("velocity_min") => a.velocity.val >= Arg("velocity_min").val
        /\ Specified("velocity_max") => a.velocity.val <= Arg("velocity_max").val
        /\ Specified("diameter_min") =>
              IsNum(o.diameter) /\ o.diameter.val >= Arg("diameter_min").val
        /\ Specified("diameter_max") =>
              IsNum(o.diameter) /\ o.diameter.val <= Arg("diameter_max").val
        /\ Specified("hazardous") => o.hazardous = Arg("hazardous").bool

QueryIsExactSelection ==
    results # Pending =>
        /\ ListsInOrder(results.items, {i \in 1..Len(cas) : Satisfies(i)})
        /\ (\A k \in 1..NCriteria : IsNone(filters[k])) =>
              results.items = [i \in 1..Len(cas) |-> i]
        /\ query(create_filters(filters), cas, objs) = results.items

QueryKeptOneOfTwo ==
    /\ pc = "queried"
    /\ Len(cas) = 2
    /\ results.items = <<2>>
    /\ Cardinality({k \in 1..NCriteria : ~IsNone(filters[k])}) = 2

-----------------------------------------------------------------------------
(* C6: the limit stage on upstream sequence S with limit N gives S itself  *)
(* if N is 0 or unspecified, else the prefix of S of length min(N, |S|).   *)
LimitIsPrefix ==
    limited # Pending =>
        IF IsNone(limited.n) \/ limited.n = PyInt(0)
        THEN limited.items = results.items
        ELSE limited.items = SubSeq(results.items, 1, Min(limited.n.int, Len(results.items)))

LimitCutOneOfTwo ==
    /\ pc = "limited"
    /\ Len(results.items) = 2
    /\ limited.n = PyInt(1)
    /\ limited.items = <<1>>

-----------------------------------------------------------------------------
(* C8 as stated: the tabular writer emits the header [datetime,            *)
(* distance_au, velocity_km_s, designation, name, diameter_km,             *)
(* potentially_hazardous], then one row per Approach of the stream, in     *)
(* stream order, its last four columns the fields of the linked Object.    *)
IsCsv(f) == "header" \in DOMAIN f

RowsFollowStream ==
    /\ Len(outFile.rows) = Len(limited.items)
    /\ \A k \in 1..Len(limited.items) :
          LET a == cas[limited.items[k]]
              o == objs[a.neo]
          IN  /\ Len(outFile.rows[k]) = 7
              /\ outFile.rows[k][1] = datetime_to_str(a.time)
              /\ outFile.rows[k][2] = a.distance
              /\ outFile.rows[k][3] = a.velocity
              /\ outFile.rows[k][4] = o.designation
              /\ outFile.rows[k][5] = o.name
              /\ outFile.rows[k][6] = o.diameter
              /\ outFile.rows[k][7] = Bool(o.hazardous)

-----------------------------------------------------------------------------
(* C9: every Approach's object reference starts unset and is assigned      *)
(* once, never reassigned; every Object's approach collection starts empty *)
(* and only grows by appends during the link phase; once the link phase    *)
(* is over no operation changes any Object, Approach, reference or         *)
(* collection.                                                             *)
IsPrefix(s, t) == Len(s) <= Len(t) /\ \A k \in 1..Len(s) : s[k] = t[k]

StartsUnlinked ==
    /\ IsReturned(neosOut) => \A o \in 1..Len(neosOut.ret) : neosOut.ret[o].approaches = <<>>
    /\ IsReturned(approachesOut) =>
          \A i \in 1..Len(approachesOut.ret) : approachesOut.ret[i].neo = 0
    /\ pc = "linking" =>
          /\ \A i \in (linkIdx + 1)..Len(cas) : cas[i].neo = 0
          /\ \A i \in 1..linkIdx : cas[i].neo # 0

LinkStepOnly ==
    /\ \A i \in 1..Len(cas) :
          /\ i \in 1..Len(cas')
          /\ cas[i].neo # 0 => cas'[i] = cas[i]
          /\ cas'[i] # cas[i] =>
                /\ pc = "linking"
                /\ cas'[i] = [cas[i] EXCEPT !.neo = cas'[i].neo]
                /\ cas'[i].neo # 0
    /\ \A o \in 1..Len(objs) :
          /\ o \in 1..Len(objs')
          /\ IsPrefix(objs[o].approaches, objs'[o].approaches)
          /\ objs'[o] = [objs[o] EXCEPT !.approaches = objs'[o].approaches]
          /\ objs'[o] # objs[o] => pc = "linking"
    /\ Linked => UNCHANGED dbVars

LinkingIsOneTime == [](StartsUnlinked) /\ [][LinkStepOnly]_vars

WrittenAfterLinking ==
    /\ pc = "done"
    /\ outFile # Pending
    /\ Len(cas) = 2
    /\ cas[1].neo = cas[2].neo

====
